---- MODULE Spec2Model ----
(***************************************************************************)
(* State-machine model of the IBOV pipeline.                               *)
(*                                                                         *)
(* src/src/ibov_scraper.py: the page-traversal loop of                     *)
(* IBOVScraper.scrape_all_pages, the row extractor, the last-page check,   *)
(* the pagination controller, the materialisation of the dataset in        *)
(* save_to_csv, and the life of the browser session (Spec, SpecLive,       *)
(* SpecRuns, SpecExtract, SpecAdvance, SpecCsv).                           *)
(* src/src/03_s3_client.py: the upload functions and main (SpecS3).        *)
(* src/src/main_pipeline.py and src/src/04_cleanup_data.py: the sequence   *)
(* of the four scripts (SpecPipeline).                                     *)
(*                                                                         *)
(* Text is modelled as a sequence of one-character strings, so that        *)
(* str.strip, str.lower, the substring test and the string order of the    *)
(* sort are computed rather than assumed.                                  *)
(***************************************************************************)
EXTENDS Integers, Sequences, FiniteSets, TLC

(***************************************************************************)
(* Bounds of the model.                                                    *)
(***************************************************************************)
\* max_pages is drawn from 0..MaxPagesArg
MaxPagesArg == 3
\* a table of SpecExtract has at most MaxRows rows
MaxRows == 3
\* an accumulated list of SpecCsv has at most MaxRecs records
MaxRecs == 3
\* main_pipeline.main is called at most MaxRuns times
MaxRuns == 2
\* a pagination area of SpecAdvance has at most MaxControls elements
MaxControls == 2
\* scrape_all_pages is called at most MaxScrapes times on one scraper
MaxScrapes == 2
\* driver.quit() is called at most MaxQuits times
MaxQuits == 2

(***************************************************************************)
(* Text.                                                                   *)
(***************************************************************************)
\* the characters str.strip() removes (those the model uses)
Whitespace == {" ", "\n"}

RECURSIVE LStrip(_)
LStrip(s) == IF s # <<>> /\ Head(s) \in Whitespace THEN LStrip(Tail(s)) ELSE s

RECURSIVE RStrip(_)
RStrip(s) ==
  IF s # <<>> /\ s[Len(s)] \in Whitespace THEN RStrip(SubSeq(s, 1, Len(s) - 1)) ELSE s

\* str.strip()
Strip(s) == RStrip(LStrip(s))

\* the code point of a character, for the characters of the codes the model uses
CodePoint(c) ==
  CASE c = " " -> 32
    [] c = "A" -> 65
    [] c = "B" -> 66
    [] c = "C" -> 67
    [] c = "d" -> 100
    [] c = "g" -> 103
    [] c = "i" -> 105
    [] c = "o" -> 111
    [] c = "ó" -> 243
    [] OTHER -> 255

\* Python's str order: lexicographic by code point, a proper prefix first
RECURSIVE StrLess(_, _)
StrLess(s, t) ==
  IF t = <<>> THEN FALSE
  ELSE IF s = <<>> THEN TRUE
  ELSE IF Head(s) = Head(t) THEN StrLess(Tail(s), Tail(t))
  ELSE CodePoint(Head(s)) < CodePoint(Head(t))

(***************************************************************************)
(* The table of a page, as the driver exposes it to _extract_table_data.   *)
(* A cell is its textContent (None when the attribute is missing); a row   *)
(* is its td cells, its th cells and whether reading it raises.            *)
(***************************************************************************)
Cell(t) == [none |-> FALSE, text |-> t]
NoneCell == [none |-> TRUE, text |-> <<>>]

\* the literal the extractor compares the code with
HeaderLabel == <<"C", "ó", "d", "i", "g", "o">>

\* texts of the five mapped columns
CodeA == <<"A">>
CodeB == <<"B">>
CodeAB == <<"A", "B">>
CodeBA == <<"B", "A">>
CodeC == <<"C">>
NameX == <<"X">>
NameY == <<"Y">>
TypeON == <<"O", "N">>
Qty == <<"1">>
Pct == <<"2">>
Blank == <<" ">>

TdRow(cells) == [td |-> cells, th |-> <<>>, stale |-> FALSE]
ThRow(cells) == [td |-> <<>>, th |-> cells, stale |-> FALSE]

\* a data row of five cells, its code and name padded as the page pads them
DataRow(code, name) ==
  TdRow(<<Cell(<<" ">> \o code \o <<"\n">>), Cell(name), Cell(TypeON), Cell(Qty),
          Cell(Pct)>>)

RowGoodA == DataRow(CodeA, NameX)
RowGoodB == DataRow(CodeB, NameY)
\* the code of RowGoodA again, another company, six cells
RowGoodA6 ==
  TdRow(<<Cell(CodeA), Cell(NameY), Cell(TypeON), Cell(Qty), Cell(Pct), Cell(Blank)>>)
RowShort == TdRow(<<Cell(CodeB), Cell(NameX), Cell(TypeON), Cell(Qty)>>)
RowEmpty == TdRow(<<>>)
RowHeader ==
  ThRow(<<Cell(HeaderLabel), Cell(NameX), Cell(TypeON), Cell(Qty), Cell(Pct)>>)
\* header-shaped, five cells, a label other than HeaderLabel
RowHeaderOther ==
  ThRow(<<Cell(CodeB), Cell(NameX), Cell(TypeON), Cell(Qty), Cell(Pct)>>)
RowHeaderShort == ThRow(<<Cell(HeaderLabel), Cell(NameX)>>)
\* a header row built of td cells
RowTdHeader ==
  TdRow(<<Cell(HeaderLabel), Cell(NameX), Cell(TypeON), Cell(Qty), Cell(Pct)>>)
RowBlankCode == DataRow(<<>>, NameX)
RowBlankName ==
  TdRow(<<Cell(CodeA), Cell(Blank), Cell(TypeON), Cell(Qty), Cell(Pct)>>)
RowNoneCell ==
  TdRow(<<Cell(CodeA), Cell(NameX), NoneCell, Cell(Qty), Cell(Pct)>>)
RowStale == [td |-> RowGoodA.td, th |-> <<>>, stale |-> TRUE]
\* td and th cells in one row
RowMixed == [td |-> RowGoodB.td, th |-> <<Cell(HeaderLabel)>>, stale |-> FALSE]

RowKinds ==
  {RowGoodA, RowGoodB, RowGoodA6, RowShort, RowEmpty, RowHeader, RowHeaderOther,
   RowHeaderShort, RowTdHeader, RowBlankCode, RowBlankName, RowNoneCell, RowStale,
   RowMixed}

\* the value of driver.current_url
Url == "IBOV_URL"

(***************************************************************************)
(* _extract_table_data: the loop over the rows of the table.               *)
(***************************************************************************)
\* cells = row.find_elements("td"), or the th cells when there is no td
CellsOf(row) == IF row.td # <<>> THEN row.td ELSE row.th

\* no row is taken for the header
IsFirstHeaderNever(row, header_found) == FALSE

\* the branch that sets header_found and skips the row
IsFirstHeader(row, header_found) ==
  row.td = <<>> /\ row.th # <<>> /\ ~header_found

\* cell_texts: the stripped textContent of every cell of the row
CellTexts(cells) == [i \in 1..Len(cells) |-> Strip(cells[i].text)]

\* the guard without the comparison with the header label
ValidRowAnyCode(codigo, empresa) == codigo # <<>> /\ empresa # <<>>

\* the guard on the code and the company name
ValidRow(codigo, empresa) ==
  codigo # <<>> /\ empresa # <<>> /\ codigo # HeaderLabel /\ codigo # <<>>

\* cell_texts[i] if len(cell_texts) > i else ""  (i counted from 1 here)
Field(texts, i) == IF Len(texts) >= i THEN texts[i] ELSE <<>>

MakeRecord(texts, page_number, now) ==
  [codigo |-> Field(texts, 1), empresa |-> Field(texts, 2), tipo |-> Field(texts, 3),
   quantidade_teorica |-> Field(texts, 4), participacao_pct |-> Field(texts, 5),
   pagina |-> page_number, data_coleta |-> now, url_fonte |-> Url]

\* four cells taken for enough
EnoughCellsFour(cells) == Len(cells) >= 4

\* the row has data enough, line 155
EnoughCells(cells) == Len(cells) >= 5

\* what one row, not skipped as the first header, appends to data: nothing
\* when reading it raises (a stale row, a cell whose textContent is None),
\* when it has fewer than five cells or when the guard rejects it
RowRecords(row, page_number, now) ==
  LET cells == CellsOf(row)
  IN  IF row.stale THEN <<>>
      ELSE IF ~EnoughCells(cells) THEN <<>>
      ELSE IF \E i \in 1..Len(cells) : cells[i].none THEN <<>>
      ELSE LET texts == CellTexts(cells)
           IN  IF ValidRow(Field(texts, 1), Field(texts, 2))
               THEN <<MakeRecord(texts, page_number, now)>>
               ELSE <<>>

\* the loop over the rows ended by the first row that cannot be read
RECURSIVE ExtractRowsUntilError(_, _, _, _)
ExtractRowsUntilError(rows, header_found, page_number, now) ==
  IF rows = <<>> THEN <<>>
  ELSE LET row == Head(rows)
       IN  IF row.stale \/ \E i \in 1..Len(CellsOf(row)) : CellsOf(row)[i].none
           THEN <<>>
           ELSE IF IsFirstHeader(row, header_found)
           THEN ExtractRowsUntilError(Tail(rows), TRUE, page_number, now)
           ELSE RowRecords(row, page_number, now)
                  \o ExtractRowsUntilError(Tail(rows), header_found, page_number, now)

RECURSIVE ExtractRows(_, _, _, _)
ExtractRows(rows, header_found, page_number, now) ==
  IF rows = <<>> THEN <<>>
  ELSE LET row == Head(rows)
       IN  IF ~row.stale /\ IsFirstHeader(row, header_found)
           THEN ExtractRows(Tail(rows), TRUE, page_number, now)
           ELSE RowRecords(row, page_number, now)
                  \o ExtractRows(Tail(rows), header_found, page_number, now)

\* The table element of a page: "none", a <table> ("table") or another
\* element with role=table ("role").  The candidate selectors, in order, and
\* whether each finds it.
TableSelectors == <<"table", "table.table", "[role='table']", ".table-responsive table">>

SelectorFindsTable(selector, kind, decorated) ==
  CASE selector = "table" -> kind = "table"
    [] selector = "table.table" -> kind = "table" /\ decorated
    [] selector = "[role='table']" -> kind = "role"
    [] selector = ".table-responsive table" -> kind = "table" /\ decorated
    [] OTHER -> FALSE

TableFound(tbl) ==
  \E i \in 1..Len(TableSelectors) :
    SelectorFindsTable(TableSelectors[i], tbl.kind, tbl.decorated)

\* _extract_table_data(page_number) on table tbl; broken: table.find_elements
\* raises, which the outer handler turns into an empty list
ExtractTableData(tbl, page_number, now) ==
  IF ~TableFound(tbl) THEN <<>>
  ELSE IF tbl.broken THEN <<>>
  ELSE ExtractRows(tbl.rows, FALSE, page_number, now)

(***************************************************************************)
(* The pagination controls of a page, in document order.  An element is    *)
(* what the selectors and the usability test read of it.                   *)
(***************************************************************************)
Anchor ==
  [tag |-> "a", aria_label |-> "", title |-> "", classes |-> {}, disabled |-> FALSE,
   aria_disabled |-> "", displayed |-> TRUE, enabled |-> TRUE, within |-> {},
   last_child |-> FALSE, dt_idx |-> FALSE, stale |-> FALSE, click |-> "ok",
   js_click |-> "ok", text |-> "", current |-> FALSE]

\* a usable "next" link
ElNext == [Anchor EXCEPT !.aria_label = "Next"]
\* "next" links carrying one disabled marker each
ElNextAriaOff == [ElNext EXCEPT !.aria_disabled = "true"]
ElNextClassOff == [ElNext EXCEPT !.classes = {"page-link", "Disabled"}]
\* a disabled button: is_enabled() is false for it
ElButtonOff ==
  [Anchor EXCEPT !.tag = "button", !.aria_label = "Next", !.disabled = TRUE,
                 !.enabled = FALSE]
ElTitleOff == [Anchor EXCEPT !.title = "Next", !.classes = {"disabled"}]
ElHidden == [Anchor EXCEPT !.title = "Próxima", !.displayed = FALSE]
\* a "next" link whose direct click throws; the script click works
ElNextBlocked == [Anchor EXCEPT !.title = "Next", !.click = "raises"]
\* neither click works
ElNextDead == [ElNextBlocked EXCEPT !.js_click = "raises"]
\* A "next" link whose click loads a page that outlasts the page-load timeout
\* of line 72: click() takes effect and raises TimeoutException.  The element
\* is stale on the page that arrives (the script click throws), or the page
\* is still the old one (the script click works).
ElNextLate == [ElNext EXCEPT !.click = "late", !.js_click = "raises"]
ElNextTwice == [ElNext EXCEPT !.click = "late"]
\* a numbered link of a DataTables pager
ElDtLink == [Anchor EXCEPT !.dt_idx = TRUE, !.within = {"dataTables_paginate"}]
\* the disabled "next" item of a Bootstrap pager
ElPagerOff ==
  [Anchor EXCEPT !.tag = "li", !.classes = {"next", "disabled"},
                 !.within = {"pagination"}]
ElStale == [ElNext EXCEPT !.stale = TRUE]
\* the numbered links of a pager without a "next" control
ElPage1 == [Anchor EXCEPT !.text = "1"]
ElPage2 == [Anchor EXCEPT !.text = "2"]
ElPage3 == [Anchor EXCEPT !.text = "3"]
ElPage2Hidden == [ElPage2 EXCEPT !.displayed = FALSE]
\* the indicator of the current page (.active, .current, aria-current):
\* reading a number, reading words, and one whose textContent cannot be read
ElActive2 == [Anchor EXCEPT !.tag = "li", !.text = "2", !.current = TRUE]
ElActiveWords == [Anchor EXCEPT !.tag = "li", !.text = "Page 1", !.current = TRUE]
ElActiveStale == [ElActiveWords EXCEPT !.stale = TRUE]

ControlLists ==
  {<<>>, <<ElNext>>, <<ElNextAriaOff>>, <<ElNextClassOff>>, <<ElButtonOff>>,
   <<ElTitleOff, ElDtLink>>, <<ElHidden>>, <<ElNextBlocked>>, <<ElNextDead>>,
   <<ElNextDead, ElDtLink>>, <<ElPagerOff, ElNext>>, <<ElStale, ElNext>>,
   <<ElNextLate>>, <<ElNextTwice>>}

\* the elements a pagination area is made of
ElementKinds ==
  {ElNext, ElNextAriaOff, ElNextClassOff, ElButtonOff, ElTitleOff, ElHidden,
   ElNextBlocked, ElNextDead, ElNextLate, ElNextTwice, ElDtLink, ElPagerOff, ElStale,
   ElPage1, ElPage2, ElPage3, ElPage2Hidden, ElActive2, ElActiveWords, ElActiveStale}

\* every pagination area of at most MaxControls elements
RECURSIVE ControlSeqs(_)
ControlSeqs(n) ==
  IF n = 0 THEN {<<>>}
  ELSE LET shorter == ControlSeqs(n - 1)
       IN  shorter \cup
             {Append(t, e) : t \in {u \in shorter : Len(u) = n - 1}, e \in ElementKinds}

PagerLists == ControlSeqs(MaxControls)

\* next_selectors of _find_next_page_button, in list order
NextSelectors ==
  <<"a[aria-label='Next']", "a[title='Next']", "a[title='Próxima']",
    "button[aria-label='Next']", "button[title='Next']", "button[title='Próxima']",
    "a:contains('Next')", "a:contains('Próxima')", "a:contains('>')",
    ".pagination a[aria-label='Next']", ".pagination button[aria-label='Next']",
    ".pagination a:last-child", "a.page-link[aria-label='Next']",
    "li.page-item:last-child a", "a[data-dt-idx]", "button.paginate_button.next",
    ".dataTables_paginate .next">>

\* disabled_selectors of _check_if_last_page, in list order
DisabledSelectors ==
  <<"a[aria-label='Next'][aria-disabled='true']", "button[aria-label='Next'][disabled]",
    "a[title='Next'].disabled", "button[title='Next']:disabled",
    ".pagination .next.disabled", ".dataTables_paginate .next.disabled">>

\* whether CSS selector sel selects element e
Matches(sel, e) ==
  CASE sel = "a[aria-label='Next']" -> e.tag = "a" /\ e.aria_label = "Next"
    [] sel = "a[title='Next']" -> e.tag = "a" /\ e.title = "Next"
    [] sel = "a[title='Próxima']" -> e.tag = "a" /\ e.title = "Próxima"
    [] sel = "button[aria-label='Next']" -> e.tag = "button" /\ e.aria_label = "Next"
    [] sel = "button[title='Next']" -> e.tag = "button" /\ e.title = "Next"
    [] sel = "button[title='Próxima']" -> e.tag = "button" /\ e.title = "Próxima"
    [] sel = ".pagination a[aria-label='Next']" ->
         "pagination" \in e.within /\ e.tag = "a" /\ e.aria_label = "Next"
    [] sel = ".pagination button[aria-label='Next']" ->
         "pagination" \in e.within /\ e.tag = "button" /\ e.aria_label = "Next"
    [] sel = ".pagination a:last-child" ->
         "pagination" \in e.within /\ e.tag = "a" /\ e.last_child
    [] sel = "a.page-link[aria-label='Next']" ->
         e.tag = "a" /\ "page-link" \in e.classes /\ e.aria_label = "Next"
    [] sel = "li.page-item:last-child a" ->
         e.tag = "a" /\ "li.page-item:last-child" \in e.within
    [] sel = "a[data-dt-idx]" -> e.tag = "a" /\ e.dt_idx
    [] sel = "button.paginate_button.next" ->
         e.tag = "button" /\ {"paginate_button", "next"} \subseteq e.classes
    [] sel = ".dataTables_paginate .next" ->
         "dataTables_paginate" \in e.within /\ "next" \in e.classes
    [] sel = "a[aria-label='Next'][aria-disabled='true']" ->
         e.tag = "a" /\ e.aria_label = "Next" /\ e.aria_disabled = "true"
    [] sel = "button[aria-label='Next'][disabled]" ->
         e.tag = "button" /\ e.aria_label = "Next" /\ e.disabled
    [] sel = "a[title='Next'].disabled" ->
         e.tag = "a" /\ e.title = "Next" /\ "disabled" \in e.classes
    [] sel = "button[title='Next']:disabled" ->
         e.tag = "button" /\ e.title = "Next" /\ e.disabled
    [] sel = ".pagination .next.disabled" ->
         "pagination" \in e.within /\ {"next", "disabled"} \subseteq e.classes
    [] sel = ".dataTables_paginate .next.disabled" ->
         "dataTables_paginate" \in e.within /\ {"next", "disabled"} \subseteq e.classes
    [] OTHER -> FALSE

\* driver.find_elements(By.CSS_SELECTOR, sel): the matches in document order
RECURSIVE FindElements(_, _)
FindElements(sel, controls) ==
  IF controls = <<>> THEN <<>>
  ELSE (IF Matches(sel, Head(controls)) THEN <<Head(controls)>> ELSE <<>>)
         \o FindElements(sel, Tail(controls))

(***************************************************************************)
(* _find_next_page_button.                                                 *)
(***************************************************************************)
\* str.lower() of a word, for the words the model uses
LowerWord(w) ==
  CASE w = "Disabled" -> "disabled"
    [] w = "Last" -> "last"
    [] w = "LAST" -> "last"
    [] w = "Page" -> "page"
    [] w = "PAGE" -> "page"
    [] w = "FIM" -> "fim"
    [] w = "DA" -> "da"
    [] w = "LISTA" -> "lista"
    [] w = "Última" -> "última"
    [] w = "Página" -> "página"
    [] OTHER -> w

\* 'disabled' in class_attr.lower(): a substring test on the class attribute
ClassSaysDisabled(classes) ==
  \E c \in classes : LowerWord(c) \in {"disabled", "is-disabled"}

\* the test without the look at the class attribute
UsableAnyClass(e) == e.displayed /\ e.enabled /\ ~e.disabled /\ e.aria_disabled # "true"

\* the test an element must pass to be clicked, lines 230-236
Usable(e) ==
  /\ e.displayed
  /\ e.enabled
  /\ ~e.disabled
  /\ e.aria_disabled # "true"
  /\ ~ClassSaysDisabled(e.classes)

\* The selectors written "a:contains(...)" are turned into an XPath whose
\* argument keeps the quotes of the selector and is quoted once more
\* (//a[contains(text(), ''Next'')]): the browser rejects it, find_elements
\* raises and the selector is given up.
TextSelectorRaises(sel) ==
  sel \in {"a:contains('Next')", "a:contains('Próxima')", "a:contains('>')"}

NoElement == [Anchor EXCEPT !.tag = "none"]
\* clicks: the click actions that took effect on the page; clicked: the
\* elements click() was called on
NoAdvance ==
  [ret |-> FALSE, how |-> "none", selector |-> 0, element |-> NoElement, clicks |-> 0,
   clicked |-> <<>>]

\* the loop over the elements one selector found: the first usable one is
\* clicked (directly, by script when the direct click throws); an exception
\* (a stale element, both clicks throwing) gives the selector up
RECURSIVE TryElements(_, _)
TryElements(els, i) ==
  IF els = <<>> THEN NoAdvance
  ELSE LET e == Head(els)
           direct == IF e.click = "raises" THEN 0 ELSE 1
       IN  IF e.stale THEN NoAdvance
           ELSE IF Usable(e)
           THEN IF e.click = "ok"
                THEN [ret |-> TRUE, how |-> "direct", selector |-> i, element |-> e,
                      clicks |-> direct, clicked |-> <<e>>]
                ELSE IF e.js_click = "ok"
                THEN [ret |-> TRUE, how |-> "script", selector |-> i, element |-> e,
                      clicks |-> direct + 1, clicked |-> <<e>>]
                ELSE [NoAdvance EXCEPT !.clicks = direct, !.clicked = <<e>>]
           ELSE TryElements(Tail(els), i)

\* The numbered-link strategy looks the links up with the XPath
\* //a[matches(text(), '^[0-9]+$')].  The browser evaluates XPath 1.0, which
\* has no function matches(): find_elements raises and line 286 swallows it.
XPathHasMatches == FALSE

\* int(text) parses
IsNumber(text) == text \in {"1", "2", "3", "4"}
ToInt(text) == CASE text = "1" -> 1 [] text = "2" -> 2 [] text = "3" -> 3 [] OTHER -> 4
ToText(n) == CASE n = 1 -> "1" [] n = 2 -> "2" [] n = 3 -> "3" [] n = 4 -> "4" [] OTHER -> "5"

\* page_links, line 260, were the XPath evaluated
PageLinks(controls) == SelectSeq(controls, LAMBDA e : e.tag = "a" /\ IsNumber(e.text))

\* current_page_text, lines 264-270: "1" unless an indicator is found and
\* its textContent can be read
CurrentPageText(controls) ==
  LET current_indicators == SelectSeq(controls, LAMBDA e : e.current)
  IN  IF current_indicators = <<>> \/ current_indicators[1].stale THEN "1"
      ELSE current_indicators[1].text

\* lines 257-287
NumberedFallback(controls) ==
  IF ~XPathHasMatches THEN NoAdvance
  ELSE IF PageLinks(controls) = <<>> THEN NoAdvance
  ELSE LET current_page_text == CurrentPageText(controls)
       IN  IF ~IsNumber(current_page_text) THEN NoAdvance
           ELSE LET next_page_num == ToInt(current_page_text) + 1
                    links == SelectSeq(controls,
                               LAMBDA e : e.tag = "a" /\ e.text = ToText(next_page_num))
                IN  IF links = <<>> \/ links[1].stale THEN NoAdvance
                    ELSE IF ~(links[1].displayed /\ links[1].enabled) THEN NoAdvance
                    ELSE IF links[1].click = "ok"
                    THEN [ret |-> TRUE, how |-> "numbered", selector |-> 0,
                          element |-> links[1], clicks |-> 1, clicked |-> <<links[1]>>]
                    ELSE [NoAdvance EXCEPT
                            !.clicks = IF links[1].click = "late" THEN 1 ELSE 0,
                            !.clicked = <<links[1]>>]

RECURSIVE TrySelectors(_, _)
TrySelectors(i, controls) ==
  IF i > Len(NextSelectors) THEN NumberedFallback(controls)
  ELSE LET sel == NextSelectors[i]
           tried == IF TextSelectorRaises(sel) THEN NoAdvance
                    ELSE TryElements(FindElements(sel, controls), i)
           later == TrySelectors(i + 1, controls)
       IN  IF tried.ret THEN tried
           ELSE [later EXCEPT !.clicks = @ + tried.clicks,
                              !.clicked = tried.clicked \o @]

\* _find_next_page_button(); fault: the driver fails on every call, which the
\* handlers of lines 253 and 286 swallow
FindNextPageButton(controls, fault) ==
  IF fault THEN NoAdvance ELSE TrySelectors(1, controls)

(***************************************************************************)
(* _check_if_last_page.  The page source is a sequence of words, blanks    *)
(* and markup characters.                                                  *)
(***************************************************************************)
SrcPlain == <<"IBOV">>
SrcLastPage == <<"Last", " ", "Page">>
SrcUltima == <<"Última", " ", "Página">>
SrcFim == <<"FIM", " ", "DA", " ", "LISTA">>
SrcEnd == <<"end", " ", "of", " ", "list">>
\* the phrase broken over two lines, and with one word in an element
SrcLineBreak == <<"last", "\n", "page">>
SrcInline == <<"last", " ", "<", "b", ">", "page", "<", "/b", ">">>
\* the phrase in an attribute value only
SrcAttribute == <<"<", "a", " ", "title=", "Last", " ", "page", ">", "<", "/a", ">">>

PageSources ==
  {SrcPlain, SrcLastPage, SrcUltima, SrcFim, SrcEnd, SrcLineBreak, SrcInline,
   SrcAttribute}

\* last_page_indicators, in list order
LastPageIndicators ==
  <<(<<"última", " ", "página">>), (<<"last", " ", "page">>),
    (<<"fim", " ", "da", " ", "lista">>), (<<"end", " ", "of", " ", "list">>)>>

\* page_source.lower()
Lower(src) == [i \in 1..Len(src) |-> LowerWord(src[i])]

\* needle in hay
Contains(hay, needle) ==
  \E i \in 0..(Len(hay) - Len(needle)) : SubSeq(hay, i + 1, i + Len(needle)) = needle

DisabledNextFound(controls) ==
  \E i \in 1..Len(DisabledSelectors) :
    FindElements(DisabledSelectors[i], controls) # <<>>

IndicatorFound(source) ==
  \E i \in 1..Len(LastPageIndicators) : Contains(Lower(source), LastPageIndicators[i])

\* _check_if_last_page(); fault: "none", "find" (the first find_elements
\* raises) or "source" (reading page_source raises); the handler of line 336
\* answers False
CheckIfLastPage(controls, source, fault) ==
  IF fault = "find" THEN FALSE
  ELSE IF DisabledNextFound(controls) THEN TRUE
  ELSE IF fault = "source" THEN FALSE
  ELSE IndicatorFound(source)

\* The text the browser renders of a page source: markup (from "<" to ">")
\* is not text, a line break is a blank, blanks collapse.
RECURSIVE DropMarkup(_, _)
DropMarkup(src, inside) ==
  IF src = <<>> THEN <<>>
  ELSE IF Head(src) = "<" THEN DropMarkup(Tail(src), TRUE)
  ELSE IF Head(src) = ">" THEN DropMarkup(Tail(src), FALSE)
  ELSE IF inside THEN DropMarkup(Tail(src), TRUE)
  ELSE <<Head(src)>> \o DropMarkup(Tail(src), FALSE)

RECURSIVE Collapse(_)
Collapse(txt) ==
  IF txt = <<>> THEN <<>>
  ELSE LET c == IF Head(txt) = "\n" THEN " " ELSE Head(txt)
           rest == Collapse(Tail(txt))
       IN  IF c = " " /\ rest # <<>> /\ Head(rest) = " " THEN rest ELSE <<c>> \o rest

RenderedText(src) == Collapse(DropMarkup(src, FALSE))

(***************************************************************************)
(* save_to_csv and get_summary: the data frame of the accumulated records. *)
(***************************************************************************)
\* the order of df.sort_values(['pagina', 'codigo'])
KeyLess(a, b) ==
  \/ a.pagina < b.pagina
  \/ a.pagina = b.pagina /\ StrLess(a.codigo, b.codigo)

\* r placed behind every record of the sorted t that does not sort after it:
\* the sort of several columns is stable
InsertSorted(t, r) ==
  LET n == Cardinality({i \in 1..Len(t) : ~KeyLess(r, t[i])})
  IN  SubSeq(t, 1, n) \o <<r>> \o SubSeq(t, n + 1, Len(t))

\* the frame left in accumulation order
SortValuesSkipped(df) == df

RECURSIVE SortValues(_)
SortValues(df) ==
  IF df = <<>> THEN <<>>
  ELSE InsertSorted(SortValues(SubSeq(df, 1, Len(df) - 1)), df[Len(df)])

SameKey(a, b) == a.codigo = b.codigo /\ a.pagina = b.pagina

\* keep='last' in place of keep='first'
RECURSIVE DropDuplicatesKeepLast(_)
DropDuplicatesKeepLast(df) ==
  IF df = <<>> THEN <<>>
  ELSE LET rest == Tail(df)
       IN  IF \E i \in 1..Len(rest) : SameKey(rest[i], Head(df))
           THEN DropDuplicatesKeepLast(rest)
           ELSE <<Head(df)>> \o DropDuplicatesKeepLast(rest)

\* df.drop_duplicates(subset=['codigo', 'pagina'], keep='first')
RECURSIVE DropDuplicates(_)
DropDuplicates(df) ==
  IF df = <<>> THEN <<>>
  ELSE LET front == SubSeq(df, 1, Len(df) - 1)
           r == df[Len(df)]
       IN  IF \E i \in 1..Len(front) : SameKey(front[i], r)
           THEN DropDuplicates(front)
           ELSE DropDuplicates(front) \o <<r>>

\* the rows save_to_csv writes
Dataset(data) == DropDuplicates(SortValues(data))

\* get_summary(): the counts it reports ({} when there are no records)
Summary(data) ==
  IF data = <<>> THEN [empty |-> TRUE, total_registros |-> 0, registros_unicos |-> 0,
                       paginas_processadas |-> 0, empresas_unicas |-> 0]
  ELSE [empty |-> FALSE,
        total_registros |-> Len(data),
        registros_unicos |-> Cardinality({data[i].codigo : i \in 1..Len(data)}),
        paginas_processadas |-> Cardinality({data[i].pagina : i \in 1..Len(data)}),
        empresas_unicas |-> Cardinality({data[i].empresa : i \in 1..Len(data)})]

(***************************************************************************)
(* The tables the traversal meets.                                         *)
(***************************************************************************)
Table(rows) == [kind |-> "table", decorated |-> FALSE, rows |-> rows, broken |-> FALSE]

TblNone == [kind |-> "none", decorated |-> FALSE, rows |-> <<>>, broken |-> FALSE]
TblEmpty == Table(<<>>)
\* one header row, five well-formed rows, one row of four cells
TblScenario ==
  Table(<<RowHeader, DataRow(CodeB, NameX), DataRow(CodeA, NameX),
          DataRow(CodeAB, NameY), DataRow(CodeC, NameY), DataRow(CodeBA, NameX),
          RowShort>>)
\* codes out of order, one of them twice
TblMixed == Table(<<RowHeader, RowGoodB, RowGoodA, RowGoodA6>>)
TblHeaderOnly == Table(<<RowHeader>>)
TblRole == [TblMixed EXCEPT !.kind = "role"]
TblBroken == [TblMixed EXCEPT !.broken = TRUE]

TraversalTables ==
  {TblNone, TblEmpty, TblScenario, TblMixed, TblHeaderOnly, TblRole, TblBroken}

\* every table of at most MaxRows rows
RECURSIVE RowSeqs(_)
RowSeqs(n) ==
  IF n = 0 THEN {<<>>}
  ELSE LET shorter == RowSeqs(n - 1)
       IN  shorter \cup {Append(t, r) : t \in {u \in shorter : Len(u) = n - 1}, r \in RowKinds}

AllTables == {Table(rows) : rows \in RowSeqs(MaxRows)} \cup TraversalTables

(***************************************************************************)
(* _wait_for_table_load.                                                   *)
(***************************************************************************)
\* the rows counted without the wait for a table element
WaitForTableLoadRows(tbl) == Len(tbl.rows) > 0

\* presence_of_element_located((By.TAG_NAME, "table")) within the timeout,
\* then the rows "table tbody tr" or else "table tr" finds
WaitForTableLoad(tbl) == tbl.kind = "table" /\ Len(tbl.rows) > 0

(***************************************************************************)
(* _set_items_per_page: the select control with id selectPage.             *)
(***************************************************************************)
NoSelect ==
  [present |-> FALSE, options |-> <<>>, selected |-> "", by_value |-> {}, by_text |-> {}]
SelectAll ==
  [present |-> TRUE, options |-> <<"20", "40", "60", "120">>, selected |-> "20",
   by_value |-> {"20", "40", "60", "120"}, by_text |-> {"20", "40", "60", "120"}]
\* the only option is the one already selected
SelectDefaultOnly ==
  [present |-> TRUE, options |-> <<"20">>, selected |-> "20", by_value |-> {"20"},
   by_text |-> {"20"}]
\* select_by_value fails for 120; select_by_visible_text works
SelectByText == [SelectAll EXCEPT !.by_value = {"20", "40", "60"}]
\* no selection works
SelectStuck == [SelectAll EXCEPT !.by_value = {}, !.by_text = {}]

Selects == {NoSelect, SelectAll, SelectDefaultOnly, SelectByText, SelectStuck}

\* the candidates above the usual default only
ValoresTentativaLarger(items) == <<items, "60", "40">>

\* valores_tentativa
ValoresTentativa(items) == <<items, "60", "40", "20">>

InOptions(valor, sel) == \E i \in 1..Len(sel.options) : sel.options[i] = valor

RECURSIVE TryValores(_, _)
TryValores(valores, sel) ==
  IF valores = <<>> THEN [ret |-> FALSE, valor |-> "", how |-> "none"]
  ELSE LET valor == Head(valores)
       IN  IF InOptions(valor, sel) /\ valor \in sel.by_value
           THEN [ret |-> TRUE, valor |-> valor, how |-> "value"]
           ELSE IF InOptions(valor, sel) /\ valor \in sel.by_text
           THEN [ret |-> TRUE, valor |-> valor, how |-> "text"]
           ELSE TryValores(Tail(valores), sel)

\* _set_items_per_page(items); an absent control times the wait out, which
\* the handler of line 401 turns into False
SetItemsPerPage(sel, items) ==
  IF ~sel.present THEN [ret |-> FALSE, valor |-> "", how |-> "none"]
  ELSE TryValores(ValoresTentativa(items), sel)

\* the views of the pagination area the traversal meets
NavViews ==
  {[controls |-> c, source |-> SrcPlain] : c \in ControlLists}
    \cup {[controls |-> c, source |-> src] : c \in {<<>>, <<ElNext>>}, src \in PageSources}

(***************************************************************************)
(* State.                                                                  *)
(***************************************************************************)
VARIABLES
  pc,                   \* where the scraper is: "idle", the steps of
                        \* scrape_all_pages, "done" once it has returned
  driver,               \* self.driver: "open" or "none"
  all_data,             \* self.all_data
  current_page,         \* current_page of scrape_all_pages
  max_pages,            \* its argument
  max_items_configured, \* its local of that name
  page_data,            \* its local of that name
  ret,                  \* the list it returned
  clock,                \* datetime.now(), counted in extraction passes
  page,                 \* what the driver showed to the step just taken
  csv,                  \* the file save_to_csv wrote
  csv_file,             \* the name save_to_csv returned ("" for none)
  results,              \* history: the PageResult of every extraction pass
  visited,              \* history: the page number of every extraction pass
  advances,             \* history: the calls of _find_next_page_button
  exit,                 \* history: why the page loop ended
  found,                \* history: whether each extraction pass located a table
  session,              \* the browser the driver started: "none", "open", "closed"
  scope,                \* the with-block of main: "out", "in", "left", "failed"
  quits,                \* history: the calls of driver.quit()
  run_no,               \* history: the calls of scrape_all_pages
  earlier_ret,          \* the list the call before returned, as it returned it
  earlier_list,         \* that list object, as it reads now
  shared,               \* whether self.all_data is that list object
  bucket,               \* 03_s3_client: the keys under the date folder
  local_data,           \* the local data folder and its .parquet files
  s3_call,              \* the upload function called last ("none": none yet)
  s3_ok,                \* whether it returned 1 (True)
  sent,                 \* the key it uploaded
  deleted_count,        \* what clean_existing_parquet_files returned to it
  pipeline_pc,          \* main_pipeline.main: "idle", "loop", "report"
  present,              \* the script files that exist
  next_script,          \* index of the script the loop of line 119 is at
  success_count,        \* main's local of that name
  failed_scripts,       \* main's local of that name
  launched,             \* history: the scripts run_script ran, with outcomes
  returns               \* history: what each call of main returned

vars ==
  <<pc, driver, all_data, current_page, max_pages, max_items_configured, page_data,
    ret, clock, page, csv, csv_file, results, visited, advances, exit, found,
    session, scope, quits, run_no, earlier_ret, earlier_list, shared, bucket, local_data, s3_call, s3_ok, sent, deleted_count,
    pipeline_pc, present, next_script, success_count, failed_scripts, launched,
    returns>>

scraper_vars ==
  <<pc, driver, all_data, current_page, max_pages, max_items_configured, page_data,
    ret, clock, page, csv, csv_file, results, visited, advances, exit, found,
    session, scope, quits, run_no, earlier_ret, earlier_list, shared>>
\* what only scrape_all_pages changes
run_vars == <<run_no, earlier_ret, shared>>
s3_vars == <<bucket, local_data, s3_call, s3_ok, sent, deleted_count>>
pipeline_vars ==
  <<pipeline_pc, present, next_script, success_count, failed_scripts, launched,
    returns>>

\* a key of the bucket, or a local file: what endswith('.parquet') reads of it
File(stem, ext) == [stem |-> stem, ext |-> ext]
NoKey == File("", "")

\* nothing of 03_s3_client has run
S3Idle ==
  /\ bucket = {}
  /\ local_data = [exists |-> FALSE, files |-> <<>>]
  /\ s3_call = "none"
  /\ s3_ok = FALSE
  /\ sent = NoKey
  /\ deleted_count = 0

\* main_pipeline.main has not been called
PipelineIdle ==
  /\ pipeline_pc = "idle"
  /\ present = {}
  /\ next_script = 1
  /\ success_count = 0
  /\ failed_scripts = <<>>
  /\ launched = <<>>
  /\ returns = <<>>

\* fault: how the driver failed the step ("none": it did not)
BlankPage ==
  [table |-> TblNone, controls |-> <<>>, source |-> <<>>, select |-> NoSelect,
   fault |-> "none"]
TableView(tbl, fault) == [BlankPage EXCEPT !.table = tbl, !.fault = fault]
NavView(controls, source, fault) ==
  [BlankPage EXCEPT !.controls = controls, !.source = source, !.fault = fault]
SelectView(sel) == [BlankPage EXCEPT !.select = sel]

\* the PageResult dropped
AccumulateNothing(data, result) == data
\* the PageResult replacing the accumulated list
AccumulateReplace(data, result) == IF result # <<>> THEN result ELSE data
\* the accumulated list sorted and deduplicated as it grows
AccumulateMaterialized(data, result) == Dataset(data \o result)

\* an empty PageResult emptying the accumulated list
AccumulateOrReset(data, result) == IF result # <<>> THEN data \o result ELSE <<>>

\* lines 448-449: a PageResult that is not empty extends the accumulated list
Accumulate(data, result) == IF result # <<>> THEN data \o result ELSE data

\* the loop running one page past the ceiling
LoopGuardBeyond(cp, mp) == cp <= mp + 1

\* line 437: the condition of the page loop
LoopGuard(cp, mp) == cp <= mp

\* the ceiling taken one page early
BelowCeilingEarly(cp, mp) == cp + 1 < mp
\* the pagination controller never called
BelowCeilingNever(cp, mp) == FALSE
\* the pagination controller called at the ceiling too
BelowCeilingOrAt(cp, mp) == cp <= mp

\* line 468: the pagination controller is called below the ceiling only
BelowCeiling(cp, mp) == cp < mp

NoFile == [written |-> FALSE, rows |-> <<>>]

\* before main enters its with-block: no scraper, no browser
Init ==
  /\ pc = "idle"
  /\ driver = "none"
  /\ found = <<>>
  /\ session = "none"
  /\ scope = "out"
  /\ quits = 0
  /\ run_no = 0
  /\ earlier_ret = <<>>
  /\ earlier_list = <<>>
  /\ shared = FALSE
  /\ S3Idle
  /\ PipelineIdle
  /\ all_data = <<>>
  /\ current_page = 1
  /\ max_pages = 0
  /\ max_items_configured = FALSE
  /\ page_data = <<>>
  /\ ret = <<>>
  /\ clock = 1
  /\ page = BlankPage
  /\ csv = NoFile
  /\ csv_file = ""
  /\ results = <<>>
  /\ visited = <<>>
  /\ advances = 0
  /\ exit = "none"

\* `with IBOVScraper(...) as scraper`: __init__ calls _setup_driver, which
\* starts Chrome (line 70) and then configures it (lines 71-72); what either
\* raises is logged and raised again, __init__ fails and the with-block is
\* never entered.  outcome: "ok", "no_browser" (line 70 raises) or
\* "configure" (line 71 or 72 raises, the browser running).
Construct(outcome) ==
  /\ scope = "out"
  /\ CASE outcome = "ok" -> driver' = "open" /\ session' = "open" /\ scope' = "in"
       [] outcome = "no_browser" ->
            driver' = "none" /\ session' = "none" /\ scope' = "failed"
       [] outcome = "configure" ->
            driver' = "none" /\ session' = "open" /\ scope' = "failed"
  /\ UNCHANGED <<pc, all_data, current_page, max_pages, max_items_configured,
                 page_data, ret, clock, page, csv, csv_file, results, visited,
                 advances, exit, found, quits>>
  /\ UNCHANGED <<run_vars, earlier_list>>
  /\ UNCHANGED <<s3_vars, pipeline_vars>>

\* scrape_all_pages returns self.all_data, from the loop or from the handler
\* of line 483
Return(data, why) ==
  /\ pc' = "done"
  /\ ret' = data
  /\ exit' = why

\* self.all_data.clear() in place of the assignment of line 416
ClearAllData(data) == [list |-> <<>>, shared |-> TRUE]

\* line 416, self.all_data = []: the attribute is bound to a new list and the
\* list it was bound to, the one the call before returned, is left alone
NewAllData(data) == [list |-> <<>>, shared |-> FALSE]

\* line 485: the handler returns the accumulated list
HandlerReturnsNothing(data) == <<>>
HandlerReturn(data) == data

\* scrape_all_pages(mp), lines 416-427: reset, then driver.get(self.url),
\* which raises when the driver does and when self.driver is None.  The
\* histories are those of the call under way.
Start(mp) ==
  /\ pc \in {"idle", "done"}
  /\ scope \in {"in", "left"}
  /\ run_no < MaxScrapes
  /\ run_no' = run_no + 1
  /\ earlier_ret' = ret
  /\ earlier_list' = IF NewAllData(all_data).shared THEN NewAllData(all_data).list
                     ELSE all_data
  /\ shared' = NewAllData(all_data).shared
  /\ all_data' = NewAllData(all_data).list
  /\ current_page' = 1
  /\ max_pages' = mp
  /\ page' = BlankPage
  /\ page_data' = <<>>
  /\ results' = <<>>
  /\ visited' = <<>>
  /\ advances' = 0
  /\ found' = <<>>
  /\ \E fault \in BOOLEAN :
       IF driver = "none" \/ fault
       THEN Return(HandlerReturn(all_data'), "error")
       ELSE pc' = "optimize" /\ exit' = "none" /\ UNCHANGED ret
  /\ UNCHANGED <<driver, max_items_configured, clock, csv, csv_file, session, scope,
                 quits>>
  /\ UNCHANGED <<s3_vars, pipeline_vars>>

\* lines 430-435: the density optimizer, once
Optimize(sel) ==
  /\ pc = "optimize"
  /\ max_items_configured' = SetItemsPerPage(sel, "120").ret
  /\ page' = SelectView(sel)
  /\ pc' = "loop"
  /\ UNCHANGED <<driver, all_data, current_page, max_pages, page_data, ret, clock,
                 csv, csv_file, results, visited, advances, exit, found, session,
                 scope, quits>>
  /\ UNCHANGED <<run_vars, earlier_list>>
  /\ UNCHANGED <<s3_vars, pipeline_vars>>

\* line 437: while current_page <= max_pages
LoopTest ==
  /\ pc = "loop"
  /\ IF LoopGuard(current_page, max_pages)
     THEN pc' = "wait" /\ UNCHANGED <<ret, exit>>
     ELSE Return(all_data, "bound")
  /\ UNCHANGED <<driver, all_data, current_page, max_pages, max_items_configured,
                 page_data, clock, page, csv, csv_file, results, visited, advances,
                 found, session, scope, quits>>
  /\ UNCHANGED <<run_vars, earlier_list>>
  /\ UNCHANGED <<s3_vars, pipeline_vars>>

\* lines 441-443: the render waiter; fault: the driver raises something
\* other than a timeout, which ends the run in the handler of line 483
Wait(tbl, fault) ==
  /\ pc = "wait"
  /\ page' = IF fault THEN TableView(TblNone, "driver") ELSE TableView(tbl, "none")
  /\ IF fault THEN Return(HandlerReturn(all_data), "error")
     ELSE IF WaitForTableLoad(tbl) THEN pc' = "extract" /\ UNCHANGED <<ret, exit>>
     ELSE Return(all_data, "not_ready")
  /\ UNCHANGED <<driver, all_data, current_page, max_pages, max_items_configured,
                 page_data, clock, csv, csv_file, results, visited, advances, found,
                 session, scope, quits>>
  /\ UNCHANGED <<run_vars, earlier_list>>
  /\ UNCHANGED <<s3_vars, pipeline_vars>>

\* lines 446-460: the row extractor, and the records appended
Extract(tbl) ==
  /\ pc = "extract"
  /\ page' = TableView(tbl, "none")
  /\ page_data' = ExtractTableData(tbl, current_page, clock)
  /\ all_data' = Accumulate(all_data, page_data')
  /\ clock' = clock + 1
  /\ results' = Append(results, page_data')
  /\ visited' = Append(visited, current_page)
  /\ found' = Append(found, TableFound(tbl))
  /\ pc' = "check"
  /\ UNCHANGED <<driver, current_page, max_pages, max_items_configured, ret, csv,
                 csv_file, advances, exit, session, scope, quits>>
  /\ earlier_list' = IF shared THEN all_data' ELSE earlier_list
  /\ UNCHANGED run_vars
  /\ UNCHANGED <<s3_vars, pipeline_vars>>

\* lines 463-465: the last-page check
Check(nav, fault) ==
  /\ pc = "check"
  /\ page' = CASE fault = "find" -> NavView(<<>>, <<>>, fault)
               [] fault = "source" -> NavView(nav.controls, <<>>, fault)
               [] OTHER -> NavView(nav.controls, nav.source, fault)
  /\ IF CheckIfLastPage(nav.controls, nav.source, fault)
     THEN Return(all_data, "last_page")
     ELSE pc' = "advance" /\ UNCHANGED <<ret, exit>>
  /\ UNCHANGED <<driver, all_data, current_page, max_pages, max_items_configured,
                 page_data, clock, csv, csv_file, results, visited, advances, found,
                 session, scope, quits>>
  /\ UNCHANGED <<run_vars, earlier_list>>
  /\ UNCHANGED <<s3_vars, pipeline_vars>>

\* lines 468-478: the pagination controller, below the ceiling only
Advance(controls, fault) ==
  /\ pc = "advance"
  /\ IF BelowCeiling(current_page, max_pages)
     THEN /\ page' = IF fault THEN NavView(<<>>, <<>>, "driver")
                     ELSE NavView(controls, <<>>, "none")
          /\ advances' = advances + 1
          /\ IF FindNextPageButton(controls, fault).ret
             THEN /\ current_page' = current_page + 1
                  /\ pc' = "loop"
                  /\ UNCHANGED <<ret, exit>>
             ELSE /\ Return(all_data, "no_next")
                  /\ UNCHANGED current_page
     ELSE /\ Return(all_data, "ceiling")
          /\ UNCHANGED <<page, advances, current_page>>
  /\ UNCHANGED <<driver, all_data, max_pages, max_items_configured, page_data, clock,
                 csv, csv_file, results, visited, found, session, scope, quits>>
  /\ UNCHANGED <<run_vars, earlier_list>>
  /\ UNCHANGED <<s3_vars, pipeline_vars>>

\* what main tells its user of the list scrape_all_pages returned, lines
\* 586-633: the list is all it has to go by
MainReport(data) == IF data # <<>> THEN "collected" ELSE "nothing collected"

\* save_to_csv(); ok: whether writing the file succeeds
SaveToCsv(ok) ==
  /\ pc \in {"idle", "done"}
  /\ scope = "in"
  /\ IF all_data = <<>> \/ ~ok
     THEN csv_file' = "" /\ UNCHANGED csv
     ELSE /\ csv' = [written |-> TRUE, rows |-> Dataset(all_data)]
          /\ csv_file' = "data/ibov_complete_data.csv"
  /\ UNCHANGED <<pc, driver, all_data, current_page, max_pages, max_items_configured,
                 page_data, ret, clock, page, results, visited, advances, exit, found,
                 session, scope, quits>>
  /\ UNCHANGED <<run_vars, earlier_list>>
  /\ UNCHANGED <<s3_vars, pipeline_vars>>

\* lines 553-555: driver.quit() and then self.driver = None, when there is a
\* driver; ok: quit() returns.  When it raises the assignment is not reached
\* and the browser may or may not have gone.
CloseDriver(ok) ==
  IF driver = "open"
  THEN /\ quits < MaxQuits
       /\ quits' = quits + 1
       /\ IF ok THEN driver' = "none" /\ session' = "closed"
          ELSE driver' = driver /\ session' \in {"open", "closed"}
  ELSE UNCHANGED <<driver, session, quits>>

\* __exit__ calls close() as control leaves the with-block
Exit(ok) ==
  /\ pc \in {"idle", "done"}
  /\ scope = "in"
  /\ scope' = "left"
  /\ CloseDriver(ok)
  /\ UNCHANGED <<pc, all_data, current_page, max_pages, max_items_configured,
                 page_data, ret, clock, page, csv, csv_file, results, visited,
                 advances, exit, found>>
  /\ UNCHANGED <<run_vars, earlier_list>>
  /\ UNCHANGED <<s3_vars, pipeline_vars>>

\* close(), called on the scraper inside or after the with-block
Close(ok) ==
  /\ pc \in {"idle", "done"}
  /\ scope \in {"in", "left"}
  /\ CloseDriver(ok)
  /\ UNCHANGED scope
  /\ UNCHANGED <<pc, all_data, current_page, max_pages, max_items_configured,
                 page_data, ret, clock, page, csv, csv_file, results, visited,
                 advances, exit, found>>
  /\ UNCHANGED <<run_vars, earlier_list>>
  /\ UNCHANGED <<s3_vars, pipeline_vars>>

Next ==
  \/ \E outcome \in {"ok", "no_browser", "configure"} : Construct(outcome)
  \/ pc = "idle" /\ scope = "in" /\ \E mp \in 0..MaxPagesArg : Start(mp)
  \/ \E sel \in Selects : Optimize(sel)
  \/ LoopTest
  \/ \E tbl \in TraversalTables, fault \in BOOLEAN : Wait(tbl, fault)
  \/ \E tbl \in TraversalTables : Extract(tbl)
  \/ \E nav \in NavViews, fault \in {"none", "find", "source"} : Check(nav, fault)
  \/ \E controls \in ControlLists, fault \in BOOLEAN : Advance(controls, fault)
  \/ \E ok \in BOOLEAN : SaveToCsv(ok)
  \/ \E ok \in BOOLEAN : Exit(ok)

\* main: one scraper, one call of scrape_all_pages inside the with-block
Spec == Init /\ [][Next]_vars

\* Every driver call returns or raises, so a step of scrape_all_pages that
\* can be taken is taken; nothing makes the caller construct a scraper, start
\* a run, save or leave.
Fairness ==
  /\ WF_vars(\E sel \in Selects : Optimize(sel))
  /\ WF_vars(LoopTest)
  /\ WF_vars(\E tbl \in TraversalTables, fault \in BOOLEAN : Wait(tbl, fault))
  /\ WF_vars(\E tbl \in TraversalTables : Extract(tbl))
  /\ WF_vars(\E nav \in NavViews, fault \in {"none", "find", "source"} : Check(nav, fault))
  /\ WF_vars(\E controls \in ControlLists, fault \in BOOLEAN : Advance(controls, fault))

SpecLive == Spec /\ Fairness

(***************************************************************************)
(* SpecRuns: any caller of one scraper: calls of scrape_all_pages one      *)
(* after the other, calls of close() and the exit of the with-block in any *)
(* order, over a few pages.                                                *)
(***************************************************************************)
RunTables == {TblMixed, TblNone}
RunNavs ==
  {[controls |-> <<ElNext>>, source |-> SrcPlain],
   [controls |-> <<>>, source |-> SrcLastPage]}

NextRuns ==
  \/ \E outcome \in {"ok", "no_browser", "configure"} : Construct(outcome)
  \/ \E mp \in 1..2 : Start(mp)
  \/ Optimize(NoSelect)
  \/ LoopTest
  \/ \E tbl \in RunTables : Wait(tbl, FALSE)
  \/ \E tbl \in RunTables : Extract(tbl)
  \/ \E nav \in RunNavs : Check(nav, "none")
  \/ \E controls \in {<<ElNext>>, <<>>} : Advance(controls, FALSE)
  \/ \E ok \in BOOLEAN : Close(ok)
  \/ \E ok \in BOOLEAN : Exit(ok)

SpecRuns == Init /\ [][NextRuns]_vars

(***************************************************************************)
(* SpecExtract: one extraction pass over every table of at most MaxRows    *)
(* rows, on each page number.  It starts where the traversal stands when   *)
(* the pages before gave no record.                                        *)
(***************************************************************************)
InitExtract ==
  \E cp \in 1..MaxPagesArg :
    /\ pc = "extract"
    /\ driver = "open"
    /\ all_data = <<>>
    /\ current_page = cp
    /\ max_pages = MaxPagesArg
    /\ max_items_configured = FALSE
    /\ page_data = <<>>
    /\ ret = <<>>
    /\ clock = cp
    /\ page = TableView(TblHeaderOnly, "none")
    /\ csv = NoFile
    /\ csv_file = ""
    /\ results = [i \in 1..(cp - 1) |-> <<>>]
    /\ visited = [i \in 1..(cp - 1) |-> i]
    /\ advances = cp - 1
    /\ exit = "none"
    /\ found = [i \in 1..(cp - 1) |-> TRUE]
    /\ session = "open"
    /\ scope = "in"
    /\ quits = 0
    /\ run_no = 1
    /\ earlier_ret = <<>>
    /\ earlier_list = <<>>
    /\ shared = FALSE
    /\ S3Idle
    /\ PipelineIdle

NextExtract == pc = "extract" /\ \E tbl \in AllTables : Extract(tbl)

SpecExtract == InitExtract /\ [][NextExtract]_vars

(***************************************************************************)
(* SpecAdvance: one call of the pagination controller on every pagination  *)
(* area of at most MaxControls elements, on each page number.  It starts   *)
(* where the traversal stands after the last-page check of a page, the     *)
(* pages so far having given no record.                                    *)
(***************************************************************************)
InitAdvance ==
  \E cp \in 1..MaxPagesArg :
    /\ pc = "advance"
    /\ driver = "open"
    /\ all_data = <<>>
    /\ current_page = cp
    /\ max_pages = MaxPagesArg
    /\ max_items_configured = FALSE
    /\ page_data = <<>>
    /\ ret = <<>>
    /\ clock = cp + 1
    /\ page = NavView(<<>>, SrcPlain, "none")
    /\ csv = NoFile
    /\ csv_file = ""
    /\ results = [i \in 1..cp |-> <<>>]
    /\ visited = [i \in 1..cp |-> i]
    /\ advances = cp - 1
    /\ exit = "none"
    /\ found = [i \in 1..cp |-> TRUE]
    /\ session = "open"
    /\ scope = "in"
    /\ quits = 0
    /\ run_no = 1
    /\ earlier_ret = <<>>
    /\ earlier_list = <<>>
    /\ shared = FALSE
    /\ S3Idle
    /\ PipelineIdle

NextAdvance ==
  pc = "advance" /\ \E controls \in PagerLists, fault \in BOOLEAN : Advance(controls, fault)

SpecAdvance == InitAdvance /\ [][NextAdvance]_vars

(***************************************************************************)
(* SpecCsv: save_to_csv on every accumulated list of at most MaxRecs       *)
(* records of two pages, after a run that ended on page 2.                 *)
(***************************************************************************)
CsvRecord(code, name, pg) == MakeRecord(<<code, name, TypeON, Qty, Pct>>, pg, pg)

CsvRecords ==
  {CsvRecord(code, name, pg) :
     code \in {CodeA, CodeB, CodeAB}, name \in {NameX, NameY}, pg \in 1..2}

\* the lists of at most n records whose page numbers never decrease
RECURSIVE RecSeqs(_)
RecSeqs(n) ==
  IF n = 0 THEN {<<>>}
  ELSE LET shorter == RecSeqs(n - 1)
       IN  shorter \cup
             {Append(t, r) : t \in {u \in shorter : Len(u) = n - 1},
                             r \in CsvRecords}

PagesAscend(data) ==
  \A i \in 1..Len(data) : \A j \in 1..Len(data) :
    i < j => data[i].pagina <= data[j].pagina

OnPage1(r) == r.pagina = 1
OnPage2(r) == r.pagina = 2

InitCsv ==
  \E data \in {d \in RecSeqs(MaxRecs) : PagesAscend(d)} :
    /\ pc = "done"
    /\ driver = "open"
    /\ all_data = data
    /\ current_page = 2
    /\ max_pages = 2
    /\ max_items_configured = FALSE
    /\ page_data = SelectSeq(data, OnPage2)
    /\ ret = data
    /\ clock = 3
    /\ page = NavView(<<ElNextAriaOff>>, SrcPlain, "none")
    /\ csv = NoFile
    /\ csv_file = ""
    /\ results = <<SelectSeq(data, OnPage1), SelectSeq(data, OnPage2)>>
    /\ visited = <<1, 2>>
    /\ advances = 1
    /\ exit = "last_page"
    /\ found = <<TRUE, TRUE>>
    /\ session = "open"
    /\ scope = "in"
    /\ quits = 0
    /\ run_no = 1
    /\ earlier_ret = <<>>
    /\ earlier_list = <<>>
    /\ shared = FALSE
    /\ S3Idle
    /\ PipelineIdle

NextCsv == \E ok \in BOOLEAN : SaveToCsv(ok)

SpecCsv == InitCsv /\ [][NextCsv]_vars

(***************************************************************************)
(* 03_s3_client: the date folder raw/AAAAMMDD of the bucket and the two     *)
(* upload functions.  SpecS3 calls them on every folder and local data     *)
(* folder below.                                                           *)
(***************************************************************************)
ParquetA == File("a", "parquet")
ParquetB == File("b", "parquet")
ParquetC == File("c", "parquet")
Keep == File("", "keep")
CsvA == File("a", "csv")

\* the keys a date folder may hold
Keys == {ParquetA, ParquetB, ParquetC, Keep, CsvA}

\* key.endswith('.parquet')
EndsWithParquet(key) == key.ext = "parquet"

\* a file of the local data folder, with os.path.getmtime of it
Local(key, mtime) == [key |-> key, mtime |-> mtime]
NoData == [exists |-> FALSE, files |-> <<>>]
Data(files) == [exists |-> TRUE, files |-> files]

\* the local data folders: missing, empty, without .parquet, one or two
\* .parquet files in glob order
LocalDatas ==
  {NoData, Data(<<>>), Data(<<Local(CsvA, 2)>>), Data(<<Local(ParquetA, 1)>>),
   Data(<<Local(ParquetC, 1)>>), Data(<<Local(ParquetA, 1), Local(ParquetC, 2)>>),
   Data(<<Local(ParquetC, 2), Local(ParquetA, 1), Local(CsvA, 2)>>),
   Data(<<Local(ParquetA, 1), Local(ParquetC, 1)>>)}

\* glob.glob(os.path.join(local_data_path, "*.parquet"))
ParquetFiles(files) == SelectSeq(files, LAMBDA f : EndsWithParquet(f.key))

\* parquet_files.sort(key=os.path.getmtime, reverse=True)[0]: the first, in
\* glob order, of the files modified last
RECURSIVE MostRecentFile(_)
MostRecentFile(files) ==
  IF Len(files) = 1 THEN files[1]
  ELSE LET rest == MostRecentFile(Tail(files))
       IN  IF rest.mtime > files[1].mtime THEN rest ELSE files[1]

\* clean_existing_parquet_files(): list_ok: list_objects_v2 answers;
\* undeletable: the keys delete_object raises on.  A failure is logged and
\* passed over; the count of the keys deleted is returned.
CleanExistingParquetFiles(objects, list_ok, undeletable) ==
  IF ~list_ok THEN [bucket |-> objects, deleted_count |-> 0]
  ELSE LET parquet_objects == {k \in objects : EndsWithParquet(k)}
           deleted == parquet_objects \ undeletable
       IN  [bucket |-> objects \ deleted, deleted_count |-> Cardinality(deleted)]

\* upload_file(file, bucket, folder/name): the key is written or overwritten
UploadFile(objects, key) == objects \cup {key}

\* upload_parquet_files(); upload_ok: upload_file returns
UploadParquetFilesCall(list_ok, undeletable, upload_ok) ==
  /\ s3_call' = "upload_parquet_files"
  /\ LET parquet_files == ParquetFiles(local_data.files)
     IN  IF ~local_data.exists \/ parquet_files = <<>>
         THEN /\ s3_ok' = FALSE
              /\ sent' = NoKey
              /\ UNCHANGED <<bucket, deleted_count>>
         ELSE LET most_recent_file == MostRecentFile(parquet_files)
                  cleaned == CleanExistingParquetFiles(bucket, list_ok, undeletable)
              IN  /\ deleted_count' = cleaned.deleted_count
                  /\ IF upload_ok
                     THEN /\ bucket' = UploadFile(cleaned.bucket, most_recent_file.key)
                          /\ sent' = most_recent_file.key
                          /\ s3_ok' = TRUE
                     ELSE /\ bucket' = cleaned.bucket
                          /\ sent' = NoKey
                          /\ s3_ok' = FALSE

UploadParquetFiles(list_ok, undeletable, upload_ok) ==
  /\ UploadParquetFilesCall(list_ok, undeletable, upload_ok)
  /\ UNCHANGED <<local_data, scraper_vars, pipeline_vars>>

\* upload_single_file(local_file_path, target_date); file: the local file
\* (NoKey: there is none at the path); date_ok: target_date parses;
\* keep_ok: the put_object of the .keep key, when it is missing, returns
UploadSingleFile(file, date_ok, list_ok, undeletable, keep_ok, upload_ok) ==
  /\ s3_call' = "upload_single_file"
  /\ IF file = NoKey \/ ~EndsWithParquet(file) \/ ~date_ok
     THEN /\ s3_ok' = FALSE
          /\ sent' = NoKey
          /\ UNCHANGED <<bucket, deleted_count>>
     ELSE LET cleaned == CleanExistingParquetFiles(bucket, list_ok, undeletable)
              kept == IF Keep \in cleaned.bucket \/ ~keep_ok THEN cleaned.bucket
                      ELSE cleaned.bucket \cup {Keep}
          IN  /\ deleted_count' = cleaned.deleted_count
              /\ IF (Keep \in cleaned.bucket \/ keep_ok) /\ upload_ok
                 THEN /\ bucket' = UploadFile(kept, file)
                      /\ sent' = file
                      /\ s3_ok' = TRUE
                 ELSE /\ bucket' = kept
                      /\ sent' = NoKey
                      /\ s3_ok' = FALSE
  /\ UNCHANGED <<local_data, scraper_vars, pipeline_vars>>

\* the scraper as SpecS3 and SpecPipeline leave it
ScraperIdle ==
  /\ pc = "idle"
  /\ driver = "none"
  /\ all_data = <<>>
  /\ current_page = 1
  /\ max_pages = 0
  /\ max_items_configured = FALSE
  /\ page_data = <<>>
  /\ ret = <<>>
  /\ clock = 1
  /\ page = BlankPage
  /\ csv = NoFile
  /\ csv_file = ""
  /\ results = <<>>
  /\ visited = <<>>
  /\ advances = 0
  /\ exit = "none"
  /\ found = <<>>
  /\ session = "none"
  /\ scope = "out"
  /\ quits = 0
  /\ run_no = 0
  /\ earlier_ret = <<>>
  /\ earlier_list = <<>>
  /\ shared = FALSE

InitS3 ==
  /\ ScraperIdle
  /\ PipelineIdle
  /\ bucket \in SUBSET Keys
  /\ local_data \in LocalDatas
  /\ s3_call = "none"
  /\ s3_ok = FALSE
  /\ sent = NoKey
  /\ deleted_count = 0

NextS3 ==
  \/ \E list_ok \in BOOLEAN, undeletable \in SUBSET {ParquetA, ParquetB},
        upload_ok \in BOOLEAN :
       UploadParquetFiles(list_ok, undeletable, upload_ok)
  \/ \E file \in {NoKey, ParquetA, ParquetC, CsvA}, date_ok \in BOOLEAN,
        list_ok \in BOOLEAN, undeletable \in SUBSET {ParquetA, ParquetB},
        keep_ok \in BOOLEAN, upload_ok \in BOOLEAN :
       UploadSingleFile(file, date_ok, list_ok, undeletable, keep_ok, upload_ok)

SpecS3 == InitS3 /\ [][NextS3]_vars

(***************************************************************************)
(* main_pipeline: main and run_script.  SpecPipeline calls main, as the    *)
(* scheduler does day after day, at most MaxRuns times.                    *)
(***************************************************************************)
\* scripts, lines 95-100
Scripts ==
  <<"src/01_ibov_scraper.py", "src/02_csv_to_parquet_glue.py", "src/03_s3_client.py",
    "src/04_cleanup_data.py">>

ScriptSet == {Scripts[i] : i \in 1..Len(Scripts)}

\* how a script launched by subprocess.run ends: with an exit code, by
\* outlasting the timeout of 300 s, or not launched at all
Outcomes == {"exit 0", "exit 1", "exit 2", "timeout", "launch error"}

\* every script passes
RunScriptAnyway(outcome) == TRUE

\* run_script(): True for exit code 0 only, lines 66-82
RunScript(outcome) == outcome = "exit 0"

\* missing_scripts, lines 104-108
MissingScripts(files) == SelectSeq(Scripts, LAMBDA script : script \notin files)

\* main(), lines 85-117; files: the script files that exist
PipelineMain(files) ==
  /\ pipeline_pc = "idle"
  /\ Len(returns) < MaxRuns
  /\ present' = files
  /\ success_count' = 0
  /\ failed_scripts' = <<>>
  /\ launched' = <<>>
  /\ next_script' = 1
  /\ IF MissingScripts(files) # <<>>
     THEN returns' = Append(returns, FALSE) /\ pipeline_pc' = "idle"
     ELSE returns' = returns /\ pipeline_pc' = "loop"
  /\ UNCHANGED <<scraper_vars, s3_vars>>

\* 03_s3_client.main, lines 398-510; fault: "none", or what fails before the
\* upload: "connect" (connect_s3 raises), "bucket" (ensure_bucket_exists
\* answers False), "folder" (create_date_folder answers "")
S3ClientMain(fault, list_ok, undeletable, upload_ok) ==
  IF fault = "none" THEN UploadParquetFilesCall(list_ok, undeletable, upload_ok)
  ELSE /\ s3_call' = "main"
       /\ s3_ok' = FALSE
       /\ sent' = NoKey
       /\ UNCHANGED <<bucket, deleted_count>>

\* The exit status of 03_s3_client.py: main returns after every failure
\* (lines 416, 424, 434) and handles every exception (501-510), and the
\* script ends with `main()`, so the status is 0 whatever happened.
S3ClientExit(fault) == "exit 0"

\* 04_cleanup_data.cleanup_data_folder, lines 25-61; rmtree_ok: shutil.rmtree
\* returns
CleanupDataFolder(data, rmtree_ok) ==
  IF ~data.exists THEN data ELSE IF rmtree_ok THEN NoData ELSE data

\* the exit status of 04_cleanup_data.py, lines 64-79
CleanupExit == "exit 0"

\* what the script at index i does to the data folder and the bucket, and
\* the outcome run_script sees of it.  fault "killed": the script did not
\* run to its end (not launched, stopped by the timeout, failed at import);
\* ok: the scraper and the converter wrote their file, upload_file returned,
\* rmtree returned.
ScriptRun(i, outcome, fault, ok) ==
  CASE i = 1 ->
         /\ local_data' = IF outcome = "exit 0" /\ ok THEN Data(<<Local(CsvA, 1)>>)
                          ELSE Data(<<>>)
         /\ UNCHANGED <<bucket, s3_call, s3_ok, sent, deleted_count>>
    [] i = 2 ->
         /\ local_data' = IF outcome = "exit 0" /\ ok /\ local_data.files # <<>>
                          THEN Data(Append(local_data.files, Local(ParquetA, 2)))
                          ELSE local_data
         /\ UNCHANGED <<bucket, s3_call, s3_ok, sent, deleted_count>>
    [] i = 3 ->
         IF fault = "killed"
         THEN outcome # "exit 0" /\ UNCHANGED s3_vars
         ELSE /\ outcome = S3ClientExit(fault)
              /\ \E list_ok \in BOOLEAN : S3ClientMain(fault, list_ok, {}, ok)
              /\ UNCHANGED local_data
    [] OTHER ->
         IF fault = "killed"
         THEN outcome # "exit 0" /\ UNCHANGED s3_vars
         ELSE /\ outcome = CleanupExit
              /\ local_data' = CleanupDataFolder(local_data, ok)
              /\ UNCHANGED <<bucket, s3_call, s3_ok, sent, deleted_count>>

\* one turn of the loop of lines 119-127
PipelineStep(outcome, fault, ok) ==
  /\ pipeline_pc = "loop"
  /\ ScriptRun(next_script, outcome, fault, ok)
  /\ launched' = Append(launched, [script |-> Scripts[next_script], outcome |-> outcome])
  /\ IF RunScript(outcome)
     THEN /\ success_count' = success_count + 1
          /\ next_script' = next_script + 1
          /\ pipeline_pc' = IF next_script = Len(Scripts) THEN "report" ELSE "loop"
          /\ UNCHANGED failed_scripts
     ELSE /\ failed_scripts' = Append(failed_scripts, Scripts[next_script])
          /\ pipeline_pc' = "report"
          /\ UNCHANGED <<success_count, next_script>>
  /\ UNCHANGED <<present, returns, scraper_vars>>

\* the report and the return of lines 129-148
PipelineReport ==
  /\ pipeline_pc = "report"
  /\ returns' = Append(returns, failed_scripts = <<>>)
  /\ pipeline_pc' = "idle"
  /\ UNCHANGED <<present, next_script, success_count, failed_scripts, launched,
                 scraper_vars, s3_vars>>

InitPipeline == ScraperIdle /\ S3Idle /\ PipelineIdle

NextPipeline ==
  \/ \E files \in SUBSET ScriptSet : PipelineMain(files)
  \/ \E outcome \in Outcomes, fault \in {"none", "connect", "bucket", "folder", "killed"},
        ok \in BOOLEAN :
       PipelineStep(outcome, fault, ok)
  \/ PipelineReport

SpecPipeline == InitPipeline /\ [][NextPipeline]_vars

(***************************************************************************)
(* Properties.                                                             *)
(***************************************************************************)
RECURSIVE Flatten(_)
Flatten(seqs) == IF seqs = <<>> THEN <<>> ELSE Head(seqs) \o Flatten(Tail(seqs))

\* (a.pagina, a.codigo) <= (b.pagina, b.codigo), lexicographically
PairLeq(a, b) ==
  \/ a.pagina < b.pagina
  \/ /\ a.pagina = b.pagina
     /\ (a.codigo = b.codigo \/ StrLess(a.codigo, b.codigo))

Sorted(data) ==
  \A i \in 1..Len(data) : \A j \in 1..Len(data) : i < j => PairLeq(data[i], data[j])

NoDuplicates(data) ==
  \A i \in 1..Len(data) : \A j \in 1..Len(data) :
    i < j => ~(data[i].codigo = data[j].codigo /\ data[i].pagina = data[j].pagina)

\* C1: a run of max_pages >= 1 that no failed render wait, no terminal page,
\* no failed advance and no driver error ended has extracted exactly the
\* pages 1..max_pages, advanced max_pages - 1 times and stopped at the
\* ceiling; no run extracts more than max_pages pages.
C1_CeilingEnforced ==
  /\ Len(visited) <= max_pages
  /\ visited = [i \in 1..Len(visited) |-> i]
  /\ (pc = "done" /\ max_pages >= 1
        /\ exit \notin {"error", "not_ready", "last_page", "no_next"})
       => (exit = "ceiling" /\ Len(visited) = max_pages /\ advances = max_pages - 1)

C1_Witness ==
  pc = "done" /\ exit = "ceiling" /\ max_pages = 3 /\ visited = <<1, 2, 3>>

\* C2: when the last-page check is evaluated, and when it has ended the run,
\* the current page has been extracted in this iteration and its records are
\* the tail of the accumulated list, which is the list returned.
C2_ExtractionBeforeTermination ==
  (pc = "check" \/ (pc = "done" /\ exit = "last_page")) =>
    /\ visited # <<>>
    /\ visited[Len(visited)] = current_page
    /\ results[Len(results)] = page_data
    /\ Len(all_data) >= Len(page_data)
    /\ SubSeq(all_data, Len(all_data) - Len(page_data) + 1, Len(all_data)) = page_data
    /\ (pc = "done" => ret = all_data)

C2_Witness ==
  pc = "done" /\ exit = "last_page" /\ current_page = 2 /\ Len(page_data) = 5

\* C3: whenever the text the page renders contains "last page" in any
\* letter case (and the driver answers the calls of the check), the
\* last-page check ends the run and the pagination controller is not called.
C3_TerminalByRenderedText ==
  [][(pc = "check" /\ page'.fault = "none"
        /\ Contains(Lower(RenderedText(page'.source)), <<"last", " ", "page">>))
       => (pc' = "done" /\ exit' = "last_page" /\ advances' = advances)]_vars

\* C4: the rows save_to_csv writes hold one record for every (code,
\* page_number) pair of the accumulated list and no more, and it is the
\* first record of that pair in accumulation order.
C4_DedupKeepsFirst ==
  csv.written =>
    /\ NoDuplicates(csv.rows)
    /\ \A k \in 1..Len(all_data) :
         \E i \in 1..Len(csv.rows) : SameKey(all_data[k], csv.rows[i])
    /\ \A i \in 1..Len(csv.rows) :
         \E k \in 1..Len(all_data) :
           /\ all_data[k] = csv.rows[i]
           /\ \A m \in 1..(k - 1) : ~SameKey(all_data[m], csv.rows[i])

C4_Witness ==
  /\ csv.written
  /\ Len(csv.rows) < Len(all_data)
  /\ \E k \in 1..Len(all_data) : \E m \in 1..Len(all_data) :
       k < m /\ SameKey(all_data[k], all_data[m]) /\ all_data[k] # all_data[m]

\* C5: any two rows save_to_csv writes, A before B, have
\* (A.page_number, A.code) <= (B.page_number, B.code).
C5_DatasetOrdered == csv.written => Sorted(csv.rows)

C5_Witness == csv.written /\ Len(csv.rows) >= 2 /\ ~Sorted(all_data)

\* C6, as claimed: the list scrape_all_pages returns is sorted by
\* (page_number, code) and holds one record per (code, page_number) pair.
C6_ReturnIsDataset == pc = "done" => (Sorted(ret) /\ NoDuplicates(ret))

\* C6, amended: the list scrape_all_pages returns is the accumulated list
\* as it stands, the PageResults one after the other in traversal order,
\* which is the list get_summary counts; only save_to_csv sorts and
\* deduplicates, and what it writes is the dataset of that list.
C6_ReturnIsAccumulated ==
  pc = "done" =>
    /\ ret = all_data
    /\ ret = Flatten(results)
    /\ PagesAscend(ret)
    /\ Summary(all_data).total_registros = Len(ret)
    /\ (csv.written => csv.rows = Dataset(ret))

C6_Witness ==
  pc = "done" /\ csv.written /\ ~Sorted(ret) /\ ~NoDuplicates(ret) /\ csv.rows # ret

\* C7: every accumulated record has a code and a company name that are not
\* empty and a code other than the header label, and the records of an
\* extraction pass carry the page number the pass ran on.
C7_RecordValidity ==
  /\ \A i \in 1..Len(all_data) :
       /\ all_data[i].codigo # <<>>
       /\ all_data[i].empresa # <<>>
       /\ all_data[i].codigo # HeaderLabel
  /\ pc = "check" =>
       /\ \A i \in 1..Len(page_data) : page_data[i].pagina = current_page
       /\ all_data = Flatten(results)

C7_Witness ==
  /\ pc = "check"
  /\ current_page = 2
  /\ page_data # <<>>
  /\ \E i \in 1..Len(page.table.rows) : page.table.rows[i] = RowTdHeader
  /\ \E i \in 1..Len(page.table.rows) : page.table.rows[i] = RowBlankCode

HeaderShaped(row) == row.td = <<>> /\ row.th # <<>> /\ ~row.stale

\* a table of header-shaped rows only, as the extractor read it
OnlyHeaderRows ==
  /\ pc = "check"
  /\ TableFound(page.table)
  /\ ~page.table.broken
  /\ page.table.rows # <<>>
  /\ \A i \in 1..Len(page.table.rows) : HeaderShaped(page.table.rows[i])

\* a header-shaped row the guard on the code and the name lets through
PassesAsData(row) ==
  /\ Len(row.th) >= 5
  /\ \A i \in 1..Len(row.th) : ~row.th[i].none
  /\ Strip(row.th[1].text) \notin {<<>>, HeaderLabel}
  /\ Strip(row.th[2].text) # <<>>

\* C8, as claimed: N consecutive header-shaped rows, of any cell count and
\* text, yield no record.
C8_HeaderRowsYieldNothing == OnlyHeaderRows => page_data = <<>>

\* C8, amended: of N consecutive header-shaped rows the first is skipped
\* whatever its cells; a later one is skipped only when it has fewer than
\* five cells, a blank first or second cell or the header label as its code,
\* and is emitted as a record otherwise.
C8_OnlyFirstHeaderSkipped ==
  OnlyHeaderRows =>
    Len(page_data) =
      Cardinality({i \in 2..Len(page.table.rows) : PassesAsData(page.table.rows[i])})

C8_Witness ==
  /\ OnlyHeaderRows
  /\ page.table.rows = <<RowHeaderOther, RowHeader, RowHeader>>
  /\ page_data = <<>>

WellFormed(row) ==
  /\ ~row.stale
  /\ Len(row.td) >= 5
  /\ \A i \in 1..Len(row.td) : ~row.td[i].none
  /\ Strip(row.td[1].text) \notin {<<>>, HeaderLabel}
  /\ Strip(row.td[2].text) # <<>>

ShortRow(row) == ~row.stale /\ row.th = <<>> /\ Len(row.td) < 5

\* well-formed rows, rows of fewer than five cells and at most one header row
PlainTable(tbl) ==
  /\ TableFound(tbl)
  /\ ~tbl.broken
  /\ \A i \in 1..Len(tbl.rows) :
       WellFormed(tbl.rows[i]) \/ ShortRow(tbl.rows[i]) \/ HeaderShaped(tbl.rows[i])
  /\ Cardinality({i \in 1..Len(tbl.rows) : HeaderShaped(tbl.rows[i])}) <= 1

\* C9: no record comes from a row of fewer than five cells; a table of k
\* well-formed rows, rows of fewer than five cells and one header row yields
\* exactly the k records of the well-formed rows, in row order.
C9_ShortRowsSkipped ==
  pc = "check" =>
    /\ Len(page_data)
         <= Cardinality({i \in 1..Len(page.table.rows) :
                           Len(CellsOf(page.table.rows[i])) >= 5})
    /\ PlainTable(page.table) =>
         LET good == SelectSeq(page.table.rows, WellFormed)
         IN  /\ Len(page_data) = Len(good)
             /\ \A j \in 1..Len(good) :
                  /\ page_data[j].codigo = Strip(good[j].td[1].text)
                  /\ page_data[j].empresa = Strip(good[j].td[2].text)
                  /\ page_data[j].pagina = current_page

C9_Witness == pc = "check" /\ page.table = TblScenario /\ Len(page_data) = 5

\* a run that took five records from page 1, advanced, and ended on page 2
\* at a disabled "next" control
EndsAtDisabledNextOfPage2 ==
  /\ pc = "done"
  /\ exit = "last_page"
  /\ current_page = 2
  /\ Len(results) >= 1
  /\ Len(results[1]) = 5
  /\ DisabledNextFound(page.controls)

\* C10, as claimed: page 2 is never extracted and the dataset is that of
\* the five records of page 1.
C10_PageTwoNotExtracted ==
  EndsAtDisabledNextOfPage2 =>
    (visited = <<1>> /\ Dataset(ret) = Dataset(results[1]))

\* C10, amended: page 2 is extracted before the check ends the run: the
\* records returned are the five of page 1 followed by those of page 2, the
\* dataset is theirs (that of page 1 alone only when page 2 gave none), and
\* the pagination controller was called once, on page 1.
C10_PageTwoExtracted ==
  EndsAtDisabledNextOfPage2 =>
    /\ visited = <<1, 2>>
    /\ advances = 1
    /\ ret = results[1] \o results[2]
    /\ (csv.written => csv.rows = Dataset(results[1] \o results[2]))
    /\ (results[2] = <<>> => Dataset(ret) = Dataset(results[1]))

C10_Witness == EndsAtDisabledNextOfPage2 /\ results[2] # <<>> /\ csv.written

\* C11: when the render waiter finds no table element within the timeout on
\* page p it answers false, no exception: the run goes to DONE at once, page p
\* is not extracted, the pagination controller is not called, and the list
\* returned is the records of pages 1..p-1 as accumulated.
C11_RenderNotReady ==
  [][(pc = "wait" /\ page'.fault = "none" /\ page'.table.kind # "table")
       => /\ pc' = "done"
          /\ exit' = "not_ready"
          /\ ret' = all_data
          /\ all_data' = all_data
          /\ ret' = Flatten(results)
          /\ Len(results) = current_page - 1
          /\ visited' = visited
          /\ advances' = advances]_vars

C11_Witness ==
  /\ pc = "done"
  /\ exit = "not_ready"
  /\ current_page = 2
  /\ page.table.kind # "table"
  /\ page.fault = "none"
  /\ ret # <<>>

\* C12, as claimed: once the row extractor found no table on page p the
\* pagination controller is not called on page p.
C12_TableNotFoundEnds ==
  \A i \in 1..Len(found) : ~found[i] => advances < visited[i]

\* C12, amended: a page on which the row extractor finds no table gives an
\* empty PageResult and leaves the accumulated list as it was; the traversal
\* goes on to the last-page check and, when that does not end the run and the
\* page is below the ceiling, calls the pagination controller.
C12_TableNotFoundGoesOn ==
  /\ [][(pc = "extract" /\ ~TableFound(page'.table))
          => /\ pc' = "check"
             /\ page_data' = <<>>
             /\ all_data' = all_data
             /\ found' = Append(found, FALSE)
             /\ visited' = Append(visited, current_page)]_vars
  /\ [][(pc = "advance" /\ ~found[Len(found)] /\ current_page < max_pages)
          => advances' = advances + 1]_vars

C12_Witness ==
  Len(found) = 2 /\ ~found[1] /\ found[2] /\ visited = <<1, 2>> /\ all_data # <<>>

\* C13: once control has left the with-block of main, or never entered it
\* because construction raised, no browser that was started is still open.
C13_SessionReleased == scope \in {"left", "failed"} => session # "open"

\* what the caller of scrape_all_pages has of a run: the list returned, and
\* what main reports of it
Outcome(data) == [returned |-> data, report |-> MainReport(data)]

\* C14: a run the driver failed (exit "error") leaves its caller with an
\* outcome other than that of a run that went through and found no rows.
C14_ErrorReportedDistinctly ==
  (pc = "done" /\ exit = "error") => Outcome(ret) # Outcome(<<>>)

\* C15: a call of the pagination controller answers true exactly when one
\* click action took effect on the page.
C15_TrueIffOneClick ==
  [][(pc = "advance" /\ current_page < max_pages)
       => ((current_page' = current_page + 1)
             <=> (FindNextPageButton(page'.controls, page'.fault # "none").clicks = 1))]_vars

\* a candidate page size that is an option of the control and that one of
\* the two ways of selecting sets
Selectable(sel) ==
  /\ sel.present
  /\ \E v \in {"120", "60", "40", "20"} :
       /\ \E i \in 1..Len(sel.options) : sel.options[i] = v
       /\ v \in sel.by_value \cup sel.by_text

C17_OneParquetPerFolder ==
  s3_ok => {k \in bucket : EndsWithParquet(k)} = {sent}

\* main has returned from its latest call
PipelineReturned == pipeline_pc = "idle" /\ returns # <<>>

\* C18: main_pipeline.main runs the scripts in list order, each after the one
\* before ended with exit code 0 and none after the first that failed; it
\* returns True exactly when all four ended with exit code 0; when a script
\* file is missing it runs none and returns False.
C18_PipelineSequencing ==
  /\ Len(launched) <= Len(Scripts)
  /\ \A i \in 1..Len(launched) :
       /\ launched[i].script = Scripts[i]
       /\ i < Len(launched) => launched[i].outcome = "exit 0"
  /\ success_count = Cardinality({i \in 1..Len(launched) : launched[i].outcome = "exit 0"})
  /\ pipeline_pc = "loop" => \A i \in 1..Len(launched) : launched[i].outcome = "exit 0"
  /\ PipelineReturned =>
       /\ returns[Len(returns)]
            <=> /\ Len(launched) = 4
                /\ \A i \in 1..4 : launched[i].outcome = "exit 0"
       /\ present # ScriptSet => (launched = <<>> /\ ~returns[Len(returns)])

C18_Witness ==
  /\ PipelineReturned
  /\ returns = <<FALSE>>
  /\ Len(launched) = 3
  /\ launched[3] = [script |-> "src/03_s3_client.py", outcome |-> "timeout"]

Running == pc \in {"optimize", "loop", "wait", "extract", "check", "advance"}

\* C19, as claimed: a run of max_pages >= 0 makes at most max_pages
\* extraction passes and at most max_pages - 1 calls of the pagination
\* controller.
C19_AdvancesBelowCeiling ==
  (Running \/ pc = "done") => (Len(visited) <= max_pages /\ advances <= max_pages - 1)

\* C19, amended: every run reaches DONE, makes at most max_pages extraction
\* passes and at most max_pages - 1 calls of the pagination controller (none
\* when max_pages is 0), and never calls it while current_page is the
\* ceiling.
C19_BoundedTermination ==
  /\ []((Running \/ pc = "done")
          => /\ Len(visited) <= max_pages
             /\ advances <= (IF max_pages >= 1 THEN max_pages - 1 ELSE 0))
  /\ [][advances' # advances => current_page < max_pages]_vars
  /\ (Running ~> pc = "done")

C19_Witness ==
  pc = "done" /\ max_pages = 0 /\ exit = "bound" /\ visited = <<>> /\ advances = 0

\* C20: the last-page check ends the run only on a disabled "next" control
\* or on a marker phrase in the text the page renders.
C20_TerminalOnlyByRenderedText ==
  [][(pc = "check" /\ pc' = "done")
       => \/ DisabledNextFound(page'.controls)
          \/ \E i \in 1..Len(LastPageIndicators) :
               Contains(Lower(RenderedText(page'.source)), LastPageIndicators[i])]_vars

\* what the first strategy of the pagination controller does on a page
NextStrategy(controls) == TrySelectors(1, controls)

\* the page has numbered links but no "next" control the first strategy
\* would click, its current-page indicator is missing or cannot be read as a
\* number, and its link numbered 2 is visible, enabled and takes the click
NumberedPagerOnly(controls) ==
  /\ NextStrategy(controls).clicked = <<>>
  /\ \/ \A i \in 1..Len(controls) : ~controls[i].current
     \/ \E i \in 1..Len(controls) :
          /\ controls[i].current
          /\ \A j \in 1..(i - 1) : ~controls[j].current
          /\ (controls[i].stale \/ controls[i].text \notin {"1", "2", "3", "4"})
  /\ \E i \in 1..Len(controls) :
       /\ controls[i].tag = "a" /\ controls[i].text = "2"
       /\ \A j \in 1..(i - 1) : ~(controls[j].tag = "a" /\ controls[j].text = "2")
       /\ controls[i].displayed /\ controls[i].enabled /\ ~controls[i].stale
       /\ controls[i].click = "ok"

\* C21: on a page without a usable "next" control whose current-page
\* indicator is unreadable and whose link numbered 2 is visible and enabled,
\* the pagination controller clicks that link and answers true.
C21_FallbackDefaultsToPage1 ==
  [][(pc = "advance" /\ current_page < max_pages /\ page'.fault = "none"
        /\ NumberedPagerOnly(page'.controls))
       => (pc' = "loop" /\ current_page' = current_page + 1)]_vars

\* C22: every element the "next"-control strategy calls click() on is
\* displayed and enabled, has no disabled attribute, no aria-disabled of
\* 'true' and no class attribute containing 'disabled' in any letter case.
C22_NeverClicksUnusable ==
  [][(pc = "advance" /\ current_page < max_pages /\ page'.fault = "none")
       => LET clicked == NextStrategy(page'.controls).clicked
          IN  \A i \in 1..Len(clicked) :
                /\ clicked[i].displayed
                /\ clicked[i].enabled
                /\ ~clicked[i].disabled
                /\ clicked[i].aria_disabled # "true"
                /\ \A c \in clicked[i].classes :
                     c \notin {"disabled", "Disabled", "DISABLED", "is-disabled"}]_vars

\* the controller passed over a "next" link with a disabled class and
\* clicked the usable one behind it
C22_Witness ==
  /\ pc = "loop"
  /\ current_page = 2
  /\ page.fault = "none"
  /\ page.controls = <<ElNextClassOff, ElNext>>
  /\ advances = 1

\* C23: an extraction pass that gives no record, the render waiter having
\* reported ready, appends nothing and leads to the last-page check; when
\* that does not end the run and the page is below the ceiling the pagination
\* controller is called, and the run goes on with the next page when the
\* controller answers true, as after any page.
C23_EmptyPageGoesOn ==
  /\ [][(pc = "extract" /\ page_data' = <<>>)
          => (all_data' = all_data /\ pc' = "check" /\ exit' = "none")]_vars
  /\ [][(pc = "advance" /\ page_data = <<>> /\ current_page < max_pages)
          => /\ advances' = advances + 1
             /\ FindNextPageButton(page'.controls, page'.fault # "none").ret
                  => (pc' = "loop" /\ current_page' = current_page + 1)]_vars
  /\ [][(pc = "loop" /\ current_page <= max_pages) => pc' = "wait"]_vars

\* page 2 gave no record, though its table was found, and page 3 was
\* extracted after it
C23_Witness ==
  /\ visited = <<1, 2, 3>>
  /\ results[1] # <<>>
  /\ results[2] = <<>>
  /\ found[2]
  /\ results[3] # <<>>
  /\ all_data = results[1] \o results[3]

\* C24: current_page is 1 when a run starts, never decreases and changes
\* only by +1, in the step in which the pagination controller answered true;
\* the page numbers of the accumulated records never decrease in
\* accumulation order and lie in 1..max_pages.
C24_CurrentPageMonotonic ==
  /\ [][(pc = "idle" /\ pc' # "idle") => current_page' = 1]_vars
  /\ [][current_page' # current_page
          => /\ pc = "advance"
             /\ current_page' = current_page + 1
             /\ FindNextPageButton(page'.controls, page'.fault # "none").ret]_vars
  /\ [](/\ \A i \in 1..Len(all_data) : all_data[i].pagina \in 1..max_pages
        /\ \A i \in 1..Len(all_data) : \A j \in 1..Len(all_data) :
             i < j => all_data[i].pagina <= all_data[j].pagina)

C24_Witness ==
  /\ pc = "done"
  /\ current_page = 3
  /\ all_data # <<>>
  /\ all_data[1].pagina = 1
  /\ all_data[Len(all_data)].pagina = 3

\* C27: a run the driver failed has returned all the same, and the list it
\* returned is the accumulated list, the PageResults of the extraction passes
\* made before the failure one after the other.
C27_ErrorReturnsAccumulated ==
  (pc = "done" /\ exit = "error") => (ret = all_data /\ ret = Flatten(results))

\* the driver failed the wait on page 2, page 1 having given records
C27_Witness ==
  /\ pc = "done"
  /\ exit = "error"
  /\ page.fault = "driver"
  /\ visited = <<1>>
  /\ ret # <<>>

\* C29: every call of scrape_all_pages starts with an empty accumulated list
\* and current_page = 1; the list a call returns holds the records of its own
\* extraction passes and none of a call before; the list the call before
\* returned reads as it did when it was returned.
C29_RunsIndependent ==
  /\ [][run_no' # run_no => (all_data' = <<>> /\ current_page' = 1)]_vars
  /\ [](earlier_list = earlier_ret)
  /\ []((pc = "done" /\ run_no >= 1)
          => /\ ret = Flatten(results)
             /\ \A i \in 1..Len(ret) : \A j \in 1..Len(earlier_ret) :
                  ret[i].data_coleta # earlier_ret[j].data_coleta)

\* a second run that returned fewer records than the first
C29_Witness ==
  /\ pc = "done"
  /\ run_no = 2
  /\ Len(earlier_ret) = 6
  /\ Len(ret) = 3
  /\ earlier_list = earlier_ret

\* C30: driver.quit() is called at most once on a scraper, whatever the
\* calls of close() and the exit of the with-block, and a call of
\* scrape_all_pages on a closed scraper returns an empty list and starts no
\* browser.
C30_CloseIdempotent ==
  /\ [](quits <= 1)
  /\ [][(run_no' # run_no /\ driver = "none")
          => (pc' = "done" /\ ret' = <<>> /\ session' = session /\ driver' = "none")]_vars

\* reading the row raises: the row is stale, or one of its five or more td
\* cells has no textContent
RowRaises(row) ==
  \/ row.stale
  \/ Len(row.td) >= 5 /\ \E i \in 1..Len(row.td) : row.td[i].none

\* a table of well-formed rows and rows that cannot be read, as the
\* extractor read it
SomeRowsRaise ==
  /\ pc = "check"
  /\ TableFound(page.table)
  /\ ~page.table.broken
  /\ \E i \in 1..Len(page.table.rows) : RowRaises(page.table.rows[i])
  /\ \A i \in 1..Len(page.table.rows) :
       RowRaises(page.table.rows[i]) \/ WellFormed(page.table.rows[i])

\* C25: a row that cannot be read gives no record and costs no other: the
\* records of the page are those of its well-formed rows, before and after
\* the row that raised, in row order.
C25_RowErrorsIsolated ==
  SomeRowsRaise =>
    LET good == SelectSeq(page.table.rows, WellFormed)
    IN  /\ Len(page_data) = Len(good)
        /\ \A j \in 1..Len(good) :
             /\ page_data[j].codigo = Strip(good[j].td[1].text)
             /\ page_data[j].empresa = Strip(good[j].td[2].text)

\* a stale row between two well-formed rows
C25_Witness ==
  /\ SomeRowsRaise
  /\ page.table.rows = <<RowGoodA, RowStale, RowGoodB>>
  /\ Len(page_data) = 2

\* C28: when an upload function answers 0 (False) because the upload request
\* failed, every .parquet key the date folder held before the call is still
\* there.
C28_FailedUploadKeepsStored ==
  [][(~s3_ok' /\ (s3_call' = "upload_single_file" => Keep \in bucket'))
       => {k \in bucket : EndsWithParquet(k)} \subseteq bucket']_vars

\* C26: in a pipeline run the cleanup stage removes the local data folder
\* only when the upload stage of that run stored a .parquet file in the
\* bucket, and it is not run at all when the upload stage failed.
C26_CleanupOnlyAfterUpload ==
  [][(pipeline_pc = "loop" /\ next_script = 4
        /\ (launched' # launched \/ local_data'.exists # local_data.exists))
       => (s3_ok /\ sent \in bucket /\ EndsWithParquet(sent))]_vars

====
